---- MODULE Spec2Model ----
(***************************************************************************)
(* Model of the cross-corpus synchronisation pipeline of the RAG           *)
(* repository: src/src/inject_pubmed_data.py (secondary corpus, PubMed     *)
(* abstracts) and the insertion path of src/src/inject_data.py (primary    *)
(* corpus, Addgene plasmids), against a ChromaDB-like document store.      *)
(*                                                                         *)
(* Strings are modelled as sequences of tokens: the empty string is << >>, *)
(* a PubMed id is <<"1">>, a PubMed-Central id is <<"PMC", "7">>, so that  *)
(* truthiness (not s), startswith("PMC") and " ".join are computed.        *)
(***************************************************************************)
EXTENDS Integers, Sequences, FiniteSets, TLC

----------------------------------------------------------------------------
(* Program constants *)

\* inject_pubmed_data.py:206  range(0, len(documents), 2000)
BatchSize == 2000

\* inject_pubmed_data.py:154  if index % 10 != 0: continue
Stride == 10

----------------------------------------------------------------------------
(* Bounds of the model *)

\* longest primary corpus (number of plasmid records) of the sync runs
MaxPrimary == 11

\* the primary corpus repeats a pattern of at most this many records
MaxPattern == 3

\* document lists of the batch runs: lengths within MaxSlack of a multiple
\* of BatchSize, up to ExampleDocs documents
MaxSlack == 2

ExampleDocs == 4500

\* at most this many fetches of one run are answered without any abstract text
MaxEmpty == 1

\* longest table of the transformer runs, and most cells missing in its one
\* incomplete row
MaxTableRows == 3

MaxMissing == 2

\* longest table of the ingestion runs
MaxRows == 2

\* largest n_results of a query, and largest distance the store reports
MaxResults == 2

MaxDist == 1

----------------------------------------------------------------------------
(* Strings *)

EmptyStr == << >>

\* Python truthiness of a string
Truthy(s) == s /= EmptyStr

\* str.startswith("PMC")
StartsWithPMC(s) == Len(s) >= 1 /\ s[1] = "PMC"

RECURSIVE JoinSpace(_)
\* " ".join(parts)
JoinSpace(parts) ==
    IF parts = << >> THEN EmptyStr
    ELSE IF Len(parts) = 1 THEN parts[1]
    ELSE parts[1] \o <<" ">> \o JoinSpace(Tail(parts))

\* the publication identifiers of the model
PM1 == <<"1">>

PM2 == <<"2">>

PMC7 == <<"PMC", "7">>

PubIds == {EmptyStr, PM1, PMC7}

PMIDs == {PM1, PM2}

\* the <AbstractText> elements the record-retrieval service holds: three for
\* the first publication, of which the second has no text, none for the other
EfetchDb == (PM1 :> << <<"a">>, EmptyStr, <<"b">> >>) @@ (PM2 :> << >>)

----------------------------------------------------------------------------
(* The document store (ChromaDB), at its interface *)

NoCollection == [exists |-> FALSE, description |-> "none", docs |-> << >>]

PubmedDescription == "PubMed Abstracts database for additional information into Addgene plasmids"

GrnaDescription == "gRNA Addgene database for CRISPR applications"

\* what the store does with a repeated id
StorePolicies == {"reject", "upsert", "ignore"}

IdsOf(docs) == {docs[k].id : k \in DOMAIN docs}

HasDuplicateIds(docs) == Cardinality(IdsOf(docs)) /= Len(docs)

RECURSIVE UpsertAll(_, _)
\* docs with every document of chunk put in order: replacing the document
\* of the same id, else appended
UpsertAll(docs, chunk) ==
    IF chunk = << >> THEN docs
    ELSE LET d == Head(chunk)
             at == {k \in DOMAIN docs : docs[k].id = d.id}
             next == IF at = {} THEN Append(docs, d)
                     ELSE [k \in DOMAIN docs |-> IF k \in at THEN d ELSE docs[k]]
         IN UpsertAll(next, Tail(chunk))

RECURSIVE IgnoreAll(_, _)
\* docs with every document of chunk whose id is not yet there appended
IgnoreAll(docs, chunk) ==
    IF chunk = << >> THEN docs
    ELSE LET d == Head(chunk)
         IN IgnoreAll(IF d.id \in IdsOf(docs) THEN docs ELSE Append(docs, d),
                      Tail(chunk))

\* collection.add(ids, documents, metadatas): [ok, docs]; ok = FALSE is a
\* raised exception, the collection unchanged
CollectionAdd(policy, docs, chunk) ==
    LET repeated == HasDuplicateIds(chunk) \/ IdsOf(chunk) \cap IdsOf(docs) /= {}
    IN IF ~repeated THEN [ok |-> TRUE, docs |-> docs \o chunk]
       ELSE IF policy = "reject" THEN [ok |-> FALSE, docs |-> docs]
       ELSE IF policy = "upsert" THEN [ok |-> TRUE, docs |-> UpsertAll(docs, chunk)]
       ELSE [ok |-> TRUE, docs |-> IgnoreAll(docs, chunk)]

\* collection.get()['metadatas']
Metadatas(coll) == [k \in DOMAIN coll.docs |-> coll.docs[k].metadata]

----------------------------------------------------------------------------
(* The bibliographic service (NCBI eutils), at its interface *)

\* an HTTP exchange: conn = FALSE is requests.get raising, wellformed = FALSE
\* a body ET.fromstring cannot parse; items are the texts of the elements
\* the caller looks for (Link Ids, AbstractText elements)
Response(conn, status, wellformed, items) ==
    [conn |-> conn, status |-> status, wellformed |-> wellformed, items |-> items]

\* what elink.fcgi may answer for a PubMed-Central id
ElinkResponses ==
    { Response(FALSE, 0, FALSE, << >>),
      Response(TRUE, 200, TRUE, <<PM1>>),
      Response(TRUE, 200, TRUE, <<PM1, PM2>>),
      Response(TRUE, 200, TRUE, <<PM2>>),
      Response(TRUE, 200, TRUE, << >>),
      Response(TRUE, 200, FALSE, << >>),
      Response(TRUE, 500, TRUE, << >>),
      Response(TRUE, 500, FALSE, << >>) }

\* what efetch.fcgi may answer for a PubMed id, db being the service's records
EfetchResponses(db, pmid) ==
    { Response(FALSE, 0, FALSE, << >>),
      Response(TRUE, 200, TRUE, IF pmid \in DOMAIN db THEN db[pmid] ELSE << >>),
      Response(TRUE, 200, FALSE, << >>),
      Response(TRUE, 500, TRUE, << >>),
      Response(TRUE, 500, FALSE, << >>) }

\* r = requests.get(...); root = ET.fromstring(r.text) completes
Parsed(r) == r.conn /\ r.wellformed

\* for elem in root.findall(".//LinkSetDb/Link/Id"): pmid = elem.text; break
FirstLinkId(r) == IF r.items = << >> THEN EmptyStr ELSE r.items[1]

\* [abst.text for abst in root.findall(".//AbstractText") if abst.text]
AbstractTexts(r) == SelectSeq(r.items, Truthy)

\* the id the record-retrieval call is made for (lines 85-93)
ResolvedId(pubmed_id, rl) ==
    IF StartsWithPMC(pubmed_id) THEN FirstLinkId(rl) ELSE pubmed_id

\* the record of one requests.get: the service, the id sent to it, and arg,
\* the pubmed_id get_pubmed_abstract was called with
ExternalCall(service, id, arg) == [service |-> service, id |-> id, arg |-> arg]

\* get_pubmed_abstract(pubmed_id), rl and rf being the answers of the two
\* external calls: kind "return" with the abstract, "raise" for an exception
\* leaving the function, "exit" for sys.exit(1); calls lists the external
\* calls made, pmid is the PubMed id the abstract was fetched for
get_pubmed_abstract(pubmed_id, rl, rf) ==
    IF ~Truthy(pubmed_id)
    THEN [kind |-> "exit", abstract |-> EmptyStr, pmid |-> EmptyStr, calls |-> << >>]
    ELSE LET viaLink == StartsWithPMC(pubmed_id)
             linkCall == IF viaLink THEN << ExternalCall("elink", pubmed_id, pubmed_id) >>
                         ELSE << >>
             pmid == ResolvedId(pubmed_id, rl)
         IN IF viaLink /\ (~Parsed(rl) \/ ~Truthy(pmid))
            THEN [kind |-> "raise", abstract |-> EmptyStr, pmid |-> EmptyStr,
                  calls |-> linkCall]
            ELSE LET calls == linkCall \o << ExternalCall("efetch", pmid, pubmed_id) >>
                 IN IF ~Parsed(rf)
                    THEN [kind |-> "raise", abstract |-> EmptyStr, pmid |-> pmid,
                          calls |-> calls]
                    ELSE [kind |-> "return", abstract |-> JoinSpace(AbstractTexts(rf)),
                          pmid |-> pmid, calls |-> calls]

----------------------------------------------------------------------------
(* Pure parts of the sync script *)

\* the record filter_addgene_data appends (lines 127-130)
new_document(pubmed_idx, pubmed_abstract) ==
    [pubmed_id |-> pubmed_idx, abstract |-> pubmed_abstract]

\* cur_pubmed_ids (line 120), as the set the membership test of line 123 reads
cur_pubmed_ids(pubmed_data) == {pubmed_data[k].pubmed_id : k \in DOMAIN pubmed_data}

\* a membership test that never finds the identifier
AlreadyPresent_Never(pubmed_id, pubmed_data) == FALSE

\* line 123: result['pubmed_id'] in cur_pubmed_ids
AlreadyPresent(pubmed_id, pubmed_data) == pubmed_id \in cur_pubmed_ids(pubmed_data)

\* create_documents keeps the records at the (0-based) indices index % 10 == 0
KeptIndex(k) == (k - 1) % Stride = 0

\* a document keyed by the abstract instead of the publication id
DocumentOf_KeyedByAbstract(data) ==
    [id |-> data.abstract,
     text |-> <<data.pubmed_id, data.abstract>>,
     metadata |-> data]

\* the document create_documents builds of one record (lines 157-164);
\* str(data) is modelled as the pair of the record's two values
DocumentOf(data) ==
    [id |-> data.pubmed_id,
     text |-> <<data.pubmed_id, data.abstract>>,
     metadata |-> data]

RECURSIVE DocsFrom(_, _)
DocsFrom(pubmed_data, k) ==
    IF k > Len(pubmed_data) THEN << >>
    ELSE (IF KeptIndex(k) THEN <<DocumentOf(pubmed_data[k])>> ELSE << >>)
         \o DocsFrom(pubmed_data, k + 1)

\* create_documents(pubmed_data)
create_documents(pubmed_data) == DocsFrom(pubmed_data, 1)

Min(a, b) == IF a < b THEN a ELSE b

\* a slice that loses the last document of a full chunk: documents[i:i+1999]
Chunk_OneShort(docs, i) == SubSeq(docs, i + 1, Min(i + BatchSize - 1, Len(docs)))

\* documents[i:i+2000], i a 0-based offset
Chunk(docs, i) == SubSeq(docs, i + 1, Min(i + BatchSize, Len(docs)))

----------------------------------------------------------------------------
(* State *)

VARIABLES
    grna_addgene,       \* the primary collection of the store
    pubmed_abstracts,   \* the secondary collection of the store
    policy,             \* the store's policy for a repeated id
    script,             \* the running script: "inject_pubmed_data" or "inject_data"
    pc,                 \* position of the running script
    exit,               \* how the last run ended: "none", "ok", "exit1", "exception"
    addgene_data,       \* main: result of read_addgene_collection
    pubmed_data,        \* main: result of read_pubmed_collection
    new_pubmed_data,    \* filter_addgene_data: the list being built
    idx,                \* filter_addgene_data: 1-based position in addgene_data
    documents,          \* the documents handed to inject_into_chromadb
    offset,             \* inject_into_chromadb: i of range(0, len(documents), 2000)
    fetch_calls,        \* the external calls of this run, in order
    add_calls,          \* the collection.add calls of this run, in order
    non2xx_used,        \* a record of new_pubmed_data was made of a non-2xx answer
    snapshots,          \* the tables data/grna_addgene.tsv may hold
    df,                 \* inject_data.main: the table read_tsv_data returned
    start_docs,         \* the primary corpus when this inject_data run started
    query,              \* the last call of the query interface
    raw,                \* what collection.query answered to it
    results             \* what the query interface returned

vars == <<grna_addgene, pubmed_abstracts, policy, script, pc, exit,
          addgene_data, pubmed_data, new_pubmed_data, idx, documents, offset,
          fetch_calls, add_calls, non2xx_used, snapshots, df, start_docs,
          query, raw, results>>

store == <<grna_addgene, pubmed_abstracts>>

\* what no step of the sync script touches
env == <<policy, script, snapshots, df, start_docs, query, raw, results>>

world == <<env, non2xx_used>>

----------------------------------------------------------------------------
(* Initial states *)

\* the metadata of a plasmid record, as far as the sync script reads it
PlasmidMetadata(k, pubmed_id) == [pubmed_id |-> pubmed_id, row_index |-> k - 1]

PlasmidDocument(k, pubmed_id) ==
    [id |-> <<"entry_", k - 1>>,
     text |-> <<"Pubmed ID: ", pubmed_id>>,
     metadata |-> PlasmidMetadata(k, pubmed_id)]

\* the primary corpus of n records whose publication ids repeat pattern
Cycle(pattern, n) ==
    [k \in 1..n |-> PlasmidDocument(k, pattern[((k - 1) % Len(pattern)) + 1])]

Patterns == UNION {[1..m -> PubIds] : m \in 1..MaxPattern}

\* short corpora, and corpora long enough for create_documents to keep a
\* second record
PrimaryLengths == {n \in 0..MaxPrimary : n <= MaxPattern \/ n > Stride}

PrimaryCorpora == {Cycle(p, n) : p \in Patterns, n \in PrimaryLengths}

Collection(description, docs) ==
    [exists |-> TRUE, description |-> description, docs |-> docs]

NoQuery == [kind |-> "none"]

NoAnswer == [ok |-> FALSE, documents |-> << >>, metadatas |-> << >>, distances |-> << >>]

\* nothing read, nothing asked
IdleInit ==
    /\ non2xx_used = FALSE
    /\ df = << >>
    /\ start_docs = << >>
    /\ query = NoQuery
    /\ raw = NoAnswer
    /\ results = << >>

RunInit ==
    /\ exit = "none"
    /\ addgene_data = << >>
    /\ pubmed_data = << >>
    /\ new_pubmed_data = << >>
    /\ idx = 1
    /\ offset = 0
    /\ fetch_calls = << >>
    /\ add_calls = << >>

Init ==
    /\ grna_addgene \in {NoCollection}
           \cup {Collection(GrnaDescription, c) : c \in PrimaryCorpora}
    /\ pubmed_abstracts \in {NoCollection, Collection("none", << >>)}
    /\ policy \in StorePolicies
    /\ script = "inject_pubmed_data"
    /\ pc = "main"
    /\ documents = << >>
    /\ snapshots = {}
    /\ RunInit
    /\ IdleInit

----------------------------------------------------------------------------
(* The sync script: inject_pubmed_data.main *)

\* the script ends: sys.exit(1), an uncaught exception, or main returning
Ends(how) ==
    /\ pc' = "done"
    /\ exit' = how

\* main, line 226: read_addgene_collection(); a new run starts here
read_addgene_collection ==
    /\ pc \in {"main", "done"}
    /\ pubmed_data' = << >>
    /\ new_pubmed_data' = << >>
    /\ idx' = 1
    /\ documents' = << >>
    /\ offset' = 0
    /\ fetch_calls' = << >>
    /\ add_calls' = << >>
    /\ \E reachable \in BOOLEAN :
          IF reachable /\ grna_addgene.exists
          THEN /\ addgene_data' = Metadatas(grna_addgene)
               /\ pc' = "read_pubmed"
               /\ exit' = "none"
          ELSE /\ addgene_data' = << >>
               /\ Ends("exit1")
    /\ non2xx_used' = FALSE
    /\ UNCHANGED <<store, env>>

\* main, line 227: read_pubmed_collection()
read_pubmed_collection ==
    /\ pc = "read_pubmed"
    /\ \E reachable \in BOOLEAN :
          IF ~reachable
          THEN /\ Ends("exit1")
               /\ UNCHANGED <<pubmed_abstracts, pubmed_data>>
          ELSE IF ~pubmed_abstracts.exists
          THEN /\ pubmed_abstracts' = Collection("none", << >>)
               /\ pubmed_data' = << >>
               /\ pc' = "filter"
               /\ UNCHANGED exit
          ELSE /\ pubmed_data' = Metadatas(pubmed_abstracts)
               /\ pc' = "filter"
               /\ UNCHANGED <<pubmed_abstracts, exit>>
    /\ UNCHANGED <<grna_addgene, world, addgene_data, new_pubmed_data, idx,
                   documents, offset, fetch_calls, add_calls>>

\* filter_addgene_data, lines 111-119 and 135: the entry of either branch
filter_addgene_data ==
    /\ pc = "filter"
    /\ IF pubmed_data /= << >> /\ addgene_data = << >>
       THEN /\ Ends("exit1")
            /\ UNCHANGED new_pubmed_data
       ELSE /\ new_pubmed_data' = pubmed_data
            /\ pc' = "filter_loop"
            /\ UNCHANGED exit
    /\ idx' = 1
    /\ UNCHANGED <<store, world, addgene_data, pubmed_data, documents, offset,
                   fetch_calls, add_calls>>

\* whether the loop skips the record (lines 122-123, 137)
Skips(result) ==
    \/ ~Truthy(result.pubmed_id)
    \/ pubmed_data /= << >> /\ AlreadyPresent(result.pubmed_id, pubmed_data)

\* the records of this run that came without any abstract text
EmptyFetched ==
    {k \in (Len(pubmed_data) + 1)..Len(new_pubmed_data) :
        new_pubmed_data[k].abstract = EmptyStr}

\* the bound of the model on the answers of the bibliographic service
Admitted(rf) ==
    Parsed(rf) /\ AbstractTexts(rf) = << >> => Cardinality(EmptyFetched) < MaxEmpty

\* one iteration of the loop over addgene_data (lines 121-131, 136-144)
filter_iteration ==
    /\ pc = "filter_loop"
    /\ idx <= Len(addgene_data)
    /\ LET result == addgene_data[idx]
       IN IF Skips(result)
          THEN /\ idx' = idx + 1
               /\ UNCHANGED <<pc, exit, new_pubmed_data, fetch_calls, non2xx_used>>
          ELSE \E rl \in ElinkResponses :
               \E rf \in EfetchResponses(EfetchDb, ResolvedId(result.pubmed_id, rl)) :
                  LET got == get_pubmed_abstract(result.pubmed_id, rl, rf)
                  IN /\ Admitted(rf)
                     /\ fetch_calls' = fetch_calls \o got.calls
                     /\ IF got.kind = "return"
                        THEN /\ new_pubmed_data' =
                                  Append(new_pubmed_data,
                                         new_document(result.pubmed_id, got.abstract))
                             /\ non2xx_used' = (non2xx_used \/ rf.status /= 200)
                             /\ idx' = idx + 1
                             /\ UNCHANGED <<pc, exit>>
                        ELSE /\ Ends(IF got.kind = "exit" THEN "exit1" ELSE "exception")
                             /\ UNCHANGED <<new_pubmed_data, idx, non2xx_used>>
    /\ UNCHANGED <<store, env, addgene_data, pubmed_data, documents, offset,
                   add_calls>>

\* the loop is over: filter_addgene_data returns and main, line 229, calls
\* create_documents on what it returned
filter_return ==
    /\ pc = "filter_loop"
    /\ idx > Len(addgene_data)
    /\ documents' = create_documents(new_pubmed_data)
    /\ pc' = "inject"
    /\ UNCHANGED <<store, world, exit, addgene_data, pubmed_data, new_pubmed_data,
                   idx, offset, fetch_calls, add_calls>>

\* the record of one collection.add call
AddCall(name, chunk, ok) == [collection |-> name, chunk |-> chunk, ok |-> ok]

\* inject_into_chromadb (inject_pubmed_data.py), lines 184-204: connect,
\* then create or get the collection
inject_into_chromadb ==
    /\ pc = "inject"
    /\ \E reachable \in BOOLEAN :
          IF ~reachable
          THEN /\ Ends("exit1")
               /\ UNCHANGED pubmed_abstracts
          ELSE /\ pubmed_abstracts' =
                     IF pubmed_abstracts.exists THEN pubmed_abstracts
                     ELSE Collection(PubmedDescription, << >>)
               /\ pc' = "insert"
               /\ UNCHANGED exit
    /\ offset' = 0
    /\ UNCHANGED <<grna_addgene, world, addgene_data, pubmed_data, new_pubmed_data,
                   idx, documents, fetch_calls, add_calls>>

\* a handler inside the loop that logs the failed chunk and goes on
OnAddFailure_Continue ==
    /\ offset' = offset + BatchSize
    /\ UNCHANGED <<pc, exit, pubmed_abstracts>>

\* lines 217-220: an exception inside inject_into_chromadb is logged and the
\* script exits; what was added before stays
OnAddFailure ==
    /\ Ends("exit1")
    /\ UNCHANGED <<pubmed_abstracts, offset>>

\* insert_documents(documents[i:i+2000], collection), lines 206-207 and
\* 169-180: one iteration of the loop over the chunks; an exception of the
\* add call reaches the handler of lines 217-220
insert_documents ==
    /\ pc = "insert"
    /\ offset < Len(documents)
    /\ \E reachable \in BOOLEAN :
          LET chunk == Chunk(documents, offset)
              added == CollectionAdd(policy, pubmed_abstracts.docs, chunk)
              ok == reachable /\ added.ok
          IN /\ add_calls' = Append(add_calls, AddCall("pubmed_abstracts", chunk, ok))
             /\ IF ok
                THEN /\ pubmed_abstracts' = [pubmed_abstracts EXCEPT !.docs = added.docs]
                     /\ offset' = offset + BatchSize
                     /\ UNCHANGED <<pc, exit>>
                ELSE OnAddFailure
    /\ UNCHANGED <<grna_addgene, world, addgene_data, pubmed_data, new_pubmed_data,
                   idx, documents, fetch_calls>>

\* the loop over the chunks is over: lines 209-215, and main returns
inject_return ==
    /\ pc = "insert"
    /\ offset >= Len(documents)
    /\ \E reachable \in BOOLEAN :
          Ends(IF reachable THEN "ok" ELSE "exit1")
    /\ UNCHANGED <<store, world, addgene_data, pubmed_data, new_pubmed_data, idx,
                   documents, offset, fetch_calls, add_calls>>

Next ==
    \/ read_addgene_collection
    \/ read_pubmed_collection
    \/ filter_addgene_data
    \/ filter_iteration
    \/ filter_return
    \/ inject_into_chromadb
    \/ insert_documents
    \/ inject_return

Spec == Init /\ [][Next]_vars

----------------------------------------------------------------------------
(* The two insertion paths on document lists of any length *)

\* inject_data.inject_into_chromadb, lines 81-126: connect, create or get
\* the collection, one collection.add of the whole list
grna_inject_into_chromadb ==
    /\ pc = "grna_inject"
    /\ \E reachable \in BOOLEAN :
          IF ~reachable
          THEN /\ Ends("exit1")
               /\ UNCHANGED <<grna_addgene, add_calls>>
          ELSE LET coll == IF grna_addgene.exists THEN grna_addgene
                           ELSE Collection(GrnaDescription, << >>)
                   added == CollectionAdd(policy, coll.docs, documents)
               IN /\ add_calls' = Append(add_calls,
                                         AddCall("grna_addgene", documents, added.ok))
                  /\ grna_addgene' = [coll EXCEPT !.docs = added.docs]
                  /\ Ends(IF added.ok THEN "ok" ELSE "exit1")
    /\ UNCHANGED <<pubmed_abstracts, world, addgene_data, pubmed_data,
                   new_pubmed_data, idx, documents, offset, fetch_calls>>

\* a document of the batch runs: the k-th of the list
BatchDocument(k) ==
    [id |-> <<k>>, text |-> <<k, EmptyStr>>,
     metadata |-> new_document(<<k>>, EmptyStr)]

BatchLengths ==
    {n \in 0..ExampleDocs :
        \/ n % BatchSize <= MaxSlack
        \/ n % BatchSize >= BatchSize - MaxSlack
        \/ n = ExampleDocs}

InitBatch ==
    /\ grna_addgene = NoCollection
    /\ pubmed_abstracts = NoCollection
    /\ policy \in StorePolicies
    /\ \/ script = "inject_pubmed_data" /\ pc = "inject"
       \/ script = "inject_data" /\ pc = "grna_inject"
    /\ documents \in {[k \in 1..n |-> BatchDocument(k)] : n \in BatchLengths}
    /\ snapshots = {}
    /\ RunInit
    /\ IdleInit

NextBatch ==
    \/ inject_into_chromadb
    \/ insert_documents
    \/ inject_return
    \/ grna_inject_into_chromadb

SpecBatch == InitBatch /\ [][NextBatch]_vars

----------------------------------------------------------------------------
(* The ingestion script: inject_data.main *)

\* the cells of a DataFrame: a missing value, a string, or a number of an
\* integer or a float column
NaN == [kind |-> "nan"]

StrCell(v) == [kind |-> "str", v |-> v]

IntCell(n) == [kind |-> "int", v |-> n]

FloatCell(n) == [kind |-> "float", v |-> n]

\* pd.notna(cell)
notna(cell) == cell.kind /= "nan"

\* str(cell), also what an f-string makes of it: a float that is whole
\* prints with ".0"
Str(cell) ==
    IF cell.kind = "str" THEN cell.v
    ELSE IF cell.kind = "int" THEN <<ToString(cell.v)>>
    ELSE IF cell.kind = "float" THEN <<ToString(cell.v), ".0">>
    ELSE <<"nan">>

\* the columns of the TSV file, in the order create_documents reads them
Columns ==
    <<"Target", "Species", "gRNA sequence", "Addgene Plasmid ID", "Application",
      "Cas9 species", "Pubmed ID", "Author/Lab">>

\* the metadata key create_documents gives each column (lines 59-66)
MetadataKey ==
    [c \in {Columns[k] : k \in DOMAIN Columns} |->
        CASE c = "Target" -> "target"
          [] c = "Species" -> "species"
          [] c = "gRNA sequence" -> "grna_sequence"
          [] c = "Addgene Plasmid ID" -> "addgene_id"
          [] c = "Application" -> "application"
          [] c = "Cas9 species" -> "cas9_species"
          [] c = "Pubmed ID" -> "pubmed_id"
          [] c = "Author/Lab" -> "author_lab"]

ColumnOfKey(key) == CHOOSE c \in DOMAIN MetadataKey : MetadataKey[c] = key

MetadataKeys == {MetadataKey[c] : c \in DOMAIN MetadataKey} \cup {"row_index"}

RECURSIVE JoinBar(_)
\* " | ".join(text_parts)
JoinBar(parts) ==
    IF parts = << >> THEN EmptyStr
    ELSE IF Len(parts) = 1 THEN parts[1]
    ELSE parts[1] \o <<" | ">> \o JoinBar(Tail(parts))

RECURSIVE TextParts(_, _)
\* text_parts (lines 35-52): "Column: value" of every column from the k-th
\* on that is not missing
TextParts(row, k) ==
    IF k > Len(Columns) THEN << >>
    ELSE (IF notna(row[Columns[k]])
          THEN << <<Columns[k], ": ">> \o Str(row[Columns[k]]) >>
          ELSE << >>)
         \o TextParts(row, k + 1)

\* a metadata mapping that leaves out the keys of the missing cells
GrnaMetadata_OmitMissing(idx0, row) ==
    [key \in {k \in MetadataKeys : k = "row_index" \/ notna(row[ColumnOfKey(k)])} |->
        IF key = "row_index" THEN idx0 ELSE Str(row[ColumnOfKey(key)])]

\* metadata (lines 58-68) of the row of index idx0
GrnaMetadata(idx0, row) ==
    [key \in MetadataKeys |->
        IF key = "row_index" THEN idx0
        ELSE IF notna(row[ColumnOfKey(key)]) THEN Str(row[ColumnOfKey(key)])
        ELSE EmptyStr]

\* an id that counts on from the documents the collection already holds
GrnaId_CountsOn(idx0) == <<"entry_", idx0 + Len(grna_addgene.docs)>>

\* f"entry_{idx}" (line 71)
GrnaId(idx0) == <<"entry_", idx0>>

\* the document of the row of index idx0 (lines 70-74)
GrnaDocument(idx0, row) ==
    [id |-> GrnaId(idx0),
     text |-> JoinBar(TextParts(row, 1)),
     metadata |-> GrnaMetadata(idx0, row)]

\* inject_data.create_documents(df): df.iterrows() numbers the rows from 0
grna_create_documents(table) ==
    [k \in DOMAIN table |-> GrnaDocument(k - 1, table[k])]

\* a complete row: the k-th of the source, odd rows targeting AAVS1 in
\* human, even rows EGFP in mouse
BaseRow(k) ==
    [c \in {Columns[j] : j \in DOMAIN Columns} |->
        CASE c = "Target" -> StrCell(IF k % 2 = 1 THEN <<"AAVS1">> ELSE <<"EGFP">>)
          [] c = "Species" -> StrCell(IF k % 2 = 1 THEN <<"H. sapiens">> ELSE <<"M. musculus">>)
          [] c = "gRNA sequence" -> StrCell(<<"GTCACCAATCCTGTCCCTAG">>)
          [] c = "Addgene Plasmid ID" -> IntCell(k)
          [] c = "Application" -> StrCell(<<"cut">>)
          [] c = "Cas9 species" -> StrCell(<<"S. pyogenes">>)
          [] c = "Pubmed ID" -> StrCell(PM1)
          [] c = "Author/Lab" -> StrCell(<<"Church">>)]

\* row with the cells of the columns in missing set to NaN
WithMissing(row, missing) ==
    [c \in DOMAIN row |-> IF c \in missing THEN NaN ELSE row[c]]

\* row as pandas holds it when the cells of the columns in missing are NaN
\* somewhere in the table: a numeric column with a missing cell is a float
\* column
InFloatColumns(row, missing) ==
    [c \in DOMAIN row |->
        IF c \in missing /\ row[c].kind = "int" THEN FloatCell(row[c].v) ELSE row[c]]

\* the table of n rows whose p-th row misses the cells of the columns in
\* missing
IncompleteTable(n, p, missing) ==
    [k \in 1..n |->
        InFloatColumns(IF k = p THEN WithMissing(BaseRow(k), missing) ELSE BaseRow(k),
                       missing)]

ColumnSet == {Columns[k] : k \in DOMAIN Columns}

\* the tables of the transformer runs
TransformTables ==
    {IncompleteTable(n, p, missing) :
        n \in 0..MaxTableRows, p \in 1..MaxTableRows,
        missing \in {m \in SUBSET ColumnSet : Cardinality(m) <= MaxMissing}}

\* the tables of the ingestion runs: complete rows in any order
IngestTables == UNION {[1..m -> {BaseRow(1), BaseRow(2)}] : m \in 0..MaxRows}

\* inject_data.main, lines 130-140: the data file is looked for and read,
\* and create_documents makes the documents of its rows; a new run starts
\* here
read_tsv_data ==
    /\ script = "inject_data"
    /\ pc \in {"data_main", "done"}
    /\ \E found \in BOOLEAN :
       \E table \in snapshots :
          IF found
          THEN /\ df' = table
               /\ documents' = grna_create_documents(table)
               /\ pc' = "grna_inject"
               /\ exit' = "none"
          ELSE /\ df' = << >>
               /\ documents' = << >>
               /\ Ends("exit1")
    /\ start_docs' = grna_addgene.docs
    /\ add_calls' = << >>
    /\ query' = NoQuery
    /\ raw' = NoAnswer
    /\ results' = << >>
    /\ UNCHANGED <<store, policy, script, snapshots, non2xx_used, addgene_data,
                   pubmed_data, new_pubmed_data, idx, offset, fetch_calls>>

InitTransform ==
    /\ grna_addgene = NoCollection
    /\ pubmed_abstracts = NoCollection
    /\ policy \in StorePolicies
    /\ script = "inject_data"
    /\ pc = "data_main"
    /\ documents = << >>
    /\ snapshots = TransformTables
    /\ RunInit
    /\ IdleInit

NextTransform == read_tsv_data

SpecTransform == InitTransform /\ [][NextTransform]_vars

----------------------------------------------------------------------------
(* The query interface: RAGQueryInterface *)

\* no where argument
NoFilter == [key \in {} |-> EmptyStr]

\* the store's filter: the metadata equals the filter on every key given
Where(filter, metadata) ==
    \A key \in DOMAIN filter :
        key \in DOMAIN metadata /\ metadata[key] = filter[key]

\* the store's query on the documents docs: the n_results candidates
\* nearest by the distances dist (position -> distance), nearest first, ties
\* in any order; every answer the store can give
CollectionQuery(docs, filter, n_results, dist) ==
    LET candidates == {i \in DOMAIN docs : Where(filter, docs[i].metadata)}
        m == Min(n_results, Cardinality(candidates))
        orders ==
            {o \in [1..m -> candidates] :
                /\ \A a, b \in 1..m : a < b => o[a] /= o[b] /\ dist[o[a]] <= dist[o[b]]
                /\ \A c \in candidates \ {o[a] : a \in 1..m} :
                      \A a \in 1..m : dist[o[a]] <= dist[c]}
    IN {[ok |-> TRUE,
         documents |-> [a \in 1..m |-> docs[o[a]].text],
         metadatas |-> [a \in 1..m |-> docs[o[a]].metadata],
         distances |-> [a \in 1..m |-> dist[o[a]]]] : o \in orders}

\* every answer the store can give to a query text, whatever the distances
\* of the text to the documents are
QueryAnswers(docs, filter, n_results) ==
    UNION {CollectionQuery(docs, filter, n_results, dist) :
               dist \in [DOMAIN docs -> 0..MaxDist]}

\* formatted_results of search with the distances paired from the far end
FormatSearch_Reversed(answer) ==
    [i \in DOMAIN answer.documents |->
        [document |-> answer.documents[i],
         metadata |-> answer.metadatas[i],
         distance |-> answer.distances[Len(answer.distances) + 1 - i]]]

\* formatted_results of search (lines 49-56)
FormatSearch(answer) ==
    [i \in DOMAIN answer.documents |->
        [document |-> answer.documents[i],
         metadata |-> answer.metadatas[i],
         distance |-> answer.distances[i]]]

\* formatted_results of search_by_metadata (lines 75-81)
FormatMetadataSearch(answer) ==
    [i \in DOMAIN answer.documents |->
        [document |-> answer.documents[i],
         metadata |-> answer.metadatas[i]]]

\* a query that passes no where argument
WhereArg_None(metadata_filter) == NoFilter

\* where=metadata_filter (line 70)
WhereArg(metadata_filter) == metadata_filter

\* the values asked for per metadata key: those of the rows, and a prefix of
\* one of them
FilterValues ==
    [target |-> {<<"AAVS1">>, <<"EGFP">>, <<"EGF">>},
     species |-> {<<"H. sapiens">>, <<"M. musculus">>}]

\* the metadata filters asked
Filters ==
    UNION {{f \in [ks -> UNION {FilterValues[k] : k \in ks}] :
                \A k \in ks : f[k] \in FilterValues[k]} :
           ks \in (SUBSET DOMAIN FilterValues) \ {{}}}

\* the interface exists once __init__ got the collection (lines 21-37). A
\* query is the last step followed on a corpus: it leaves the store as it
\* is, so whatever can follow it can follow the state it was asked in
Connected ==
    /\ script = "inject_data"
    /\ pc = "done"
    /\ grna_addgene.exists

\* RAGQueryInterface.search(query, n_results), lines 39-62: the text is
\* represented by the distances it has to the documents
search ==
    /\ Connected
    /\ \E n_results \in 1..MaxResults :
       \E reachable \in BOOLEAN :
       \E answer \in QueryAnswers(grna_addgene.docs, NoFilter, n_results) :
          /\ query' = [kind |-> "search", n_results |-> n_results]
          /\ raw' = IF reachable THEN answer ELSE NoAnswer
          /\ results' = IF reachable THEN FormatSearch(answer) ELSE << >>
    /\ pc' = "answered"
    /\ UNCHANGED <<store, policy, script, snapshots, df, start_docs, non2xx_used,
                   exit, addgene_data, pubmed_data, new_pubmed_data, idx,
                   documents, offset, fetch_calls, add_calls>>

\* RAGQueryInterface.search_by_metadata(metadata_filter, n_results), lines
\* 64-87: the empty query text leaves the order to the store
search_by_metadata ==
    /\ Connected
    /\ \E metadata_filter \in Filters :
       \E n_results \in 1..MaxResults :
       \E reachable \in BOOLEAN :
       \E answer \in {[a EXCEPT !.distances = << >>] :
                        a \in QueryAnswers(grna_addgene.docs,
                                           WhereArg(metadata_filter), n_results)} :
          /\ query' = [kind |-> "search_by_metadata", n_results |-> n_results,
                       metadata_filter |-> metadata_filter]
          /\ raw' = IF reachable THEN answer ELSE NoAnswer
          /\ results' = IF reachable THEN FormatMetadataSearch(answer) ELSE << >>
    /\ pc' = "answered"
    /\ UNCHANGED <<store, policy, script, snapshots, df, start_docs, non2xx_used,
                   exit, addgene_data, pubmed_data, new_pubmed_data, idx,
                   documents, offset, fetch_calls, add_calls>>

InitIngest ==
    /\ grna_addgene = NoCollection
    /\ pubmed_abstracts = NoCollection
    /\ policy \in StorePolicies
    /\ script = "inject_data"
    /\ pc = "data_main"
    /\ documents = << >>
    /\ snapshots = IngestTables
    /\ RunInit
    /\ IdleInit

NextIngest ==
    \/ read_tsv_data
    \/ grna_inject_into_chromadb
    \/ search
    \/ search_by_metadata

SpecIngest == InitIngest /\ [][NextIngest]_vars

----------------------------------------------------------------------------
(* Vocabulary of the properties *)

\* the publication ids of the records of a list of metadata
PubmedIdsOf(data) == {data[k].pubmed_id : k \in DOMAIN data}

\* the publication ids the secondary corpus holds
SecondaryIds == PubmedIdsOf(Metadatas(pubmed_abstracts))

\* the calls of get_pubmed_abstract of this run made for publication id x:
\* each starts with an identifier-linking call for a PubMed-Central id and
\* with a record-retrieval call otherwise
FetchesFor(x) ==
    {k \in DOMAIN fetch_calls :
        /\ fetch_calls[k].arg = x
        /\ fetch_calls[k].service = IF StartsWithPMC(x) THEN "elink" ELSE "efetch"}

\* the positions in new_pubmed_data of the records this run created
Created == (IF pubmed_data /= << >> THEN Len(pubmed_data) + 1 ELSE 1)..Len(new_pubmed_data)

CreatedFor(x) == {k \in Created : new_pubmed_data[k].pubmed_id = x}

\* the primary records carrying publication id x
PrimaryWith(x) == {k \in DOMAIN addgene_data : addgene_data[k].pubmed_id = x}

\* filter_addgene_data has returned in this run
Filtered == script = "inject_pubmed_data" /\ pc \in {"inject", "insert"}

\* the run of the sync script is over and main returned
Completed == script = "inject_pubmed_data" /\ pc = "done" /\ exit = "ok"

\* the add calls of this run on the secondary collection
PubmedAdds == {k \in DOMAIN add_calls : add_calls[k].collection = "pubmed_abstracts"}

----------------------------------------------------------------------------
(* C1 *)

\* C1: within one sync run, a non-empty publication id that two or more
\* primary records share and that the secondary corpus did not hold at the
\* start of the run is fetched exactly once and gets exactly one record
C1_SharedIdFetchedOnce ==
    Filtered =>
        \A x \in PubmedIdsOf(addgene_data) :
            (Truthy(x) /\ Cardinality(PrimaryWith(x)) >= 2
                       /\ x \notin PubmedIdsOf(pubmed_data))
            => /\ Cardinality(FetchesFor(x)) = 1
               /\ Cardinality(CreatedFor(x)) = 1

----------------------------------------------------------------------------
(* C2 *)

\* C2: the secondary corpus never holds two records with the same
\* publication identifier
C2_NoDuplicatePublication ==
    \A j, k \in DOMAIN pubmed_abstracts.docs :
        pubmed_abstracts.docs[j].metadata.pubmed_id
            = pubmed_abstracts.docs[k].metadata.pubmed_id
        => j = k

\* a second run has handed a record the corpus already held to the store,
\* and the corpus holds two publications
C2_Witness ==
    /\ Completed
    /\ Len(pubmed_abstracts.docs) >= 2
    /\ \E k \in PubmedAdds :
          /\ add_calls[k].ok
          /\ IdsOf(add_calls[k].chunk) \cap PubmedIdsOf(pubmed_data) /= {}

----------------------------------------------------------------------------
(* C3 *)

\* every primary record's publication id is empty or in the secondary
\* corpus as read at the start of the run
Converged ==
    \A k \in DOMAIN addgene_data :
        Truthy(addgene_data[k].pubmed_id) =>
            addgene_data[k].pubmed_id \in PubmedIdsOf(pubmed_data)

\* C3: a sync run makes no external call for a primary record's identifier
\* that the secondary corpus held at the start of the run (what the run read
\* is what the corpus holds until insertion starts), and none at all when
\* every non-empty primary identifier was already there; identifiers are
\* compared as the records spell them, as line 123 does
C3_NoFetchOfPresent ==
    /\ (script = "inject_pubmed_data" /\ pc \in {"filter", "filter_loop", "inject"})
           => pubmed_data = Metadatas(pubmed_abstracts)
    /\ \A k \in DOMAIN fetch_calls :
           fetch_calls[k].arg \notin PubmedIdsOf(pubmed_data)
    /\ Converged => fetch_calls = << >>

\* a run over converged corpora has ended without any external call
C3_Witness ==
    /\ Completed
    /\ pubmed_data /= << >>
    /\ \E k \in DOMAIN addgene_data : Truthy(addgene_data[k].pubmed_id)
    /\ Converged
    /\ fetch_calls = << >>

----------------------------------------------------------------------------
(* C4 *)

\* C4: a failed resolution or fetch for one identifier does not abort the
\* run: no run ends on the exception before the loop over the primary
\* records has passed every record
C4_FailureDoesNotAbort ==
    ~(pc = "done" /\ exit = "exception" /\ idx <= Len(addgene_data))

----------------------------------------------------------------------------
(* C5 *)

\* C5: after a complete sync run in which no fetch failed, the secondary
\* corpus holds a record for every non-empty primary publication identifier
C5_SyncComplete ==
    Completed =>
        \A k \in DOMAIN addgene_data :
            Truthy(addgene_data[k].pubmed_id) =>
                addgene_data[k].pubmed_id \in SecondaryIds

----------------------------------------------------------------------------
(* C6 *)

\* C6: every document a sync run passes to the store's add call carries an
\* identifier fetched in this run, none one the secondary corpus held at the
\* start of the run
C6_OnlyNewInserted ==
    \A k \in PubmedAdds :
        \A d \in DOMAIN add_calls[k].chunk :
            /\ CreatedFor(add_calls[k].chunk[d].id) /= {}
            /\ add_calls[k].chunk[d].id \notin PubmedIdsOf(pubmed_data)

----------------------------------------------------------------------------
(* C7 *)

\* C7: every record the sync engine creates carries its publication
\* identifier in PubMed form, never in PubMed-Central form, and so does the
\* document made of it
C7_CanonicalIds ==
    /\ \A k \in Created : ~StartsWithPMC(new_pubmed_data[k].pubmed_id)
    /\ \A k \in DOMAIN documents :
           documents[k].metadata \in {new_pubmed_data[j] : j \in Created}
               => ~StartsWithPMC(documents[k].id)

----------------------------------------------------------------------------
(* C8 *)

RECURSIVE ChunksUpTo(_)
\* the chunks of the first k add calls, concatenated
ChunksUpTo(k) == IF k = 0 THEN << >> ELSE ChunksUpTo(k - 1) \o add_calls[k].chunk

\* ceil(n / BatchSize)
BatchCount(n) == (n + BatchSize - 1) \div BatchSize

\* the batch inserter went through all of documents
Inserted == script = "inject_pubmed_data" /\ pc = "done" /\ offset >= Len(documents)

\* C8: for a list of n documents the batch inserter makes exactly
\* ceil(n / 2000) add calls, each on at most 2000 documents, whose chunks
\* concatenated in call order are the list
C8_BatchesCoverList ==
    Inserted =>
        /\ Len(add_calls) = BatchCount(Len(documents))
        /\ \A k \in DOMAIN add_calls :
               /\ add_calls[k].ok
               /\ Len(add_calls[k].chunk) <= BatchSize
               /\ Len(add_calls[k].chunk) >= 1
        /\ ChunksUpTo(Len(add_calls)) = documents

\* 4500 documents went in as 2000, 2000 and 500
C8_Witness ==
    /\ Inserted
    /\ Len(documents) = 2 * BatchSize + 500
    /\ Len(add_calls) = 3
    /\ Len(add_calls[1].chunk) = BatchSize
    /\ Len(add_calls[2].chunk) = BatchSize
    /\ Len(add_calls[3].chunk) = 500

----------------------------------------------------------------------------
(* C9 *)

\* C9: when the add call of a chunk fails during batched insertion, it is
\* the last add call, the script has ended in failure, and the collection
\* holds the documents of the chunks before it (exactly those, from an
\* empty collection): nothing is rolled back
C9_FailFastNoRollback ==
    script = "inject_pubmed_data" =>
        \A k \in DOMAIN add_calls :
            ~add_calls[k].ok =>
                /\ k = Len(add_calls)
                /\ pc = "done"
                /\ exit = "exit1"
                /\ \A j \in 1..(k - 1) : add_calls[j].ok
                /\ pubmed_abstracts.docs = ChunksUpTo(k - 1)

\* the add call of the third chunk failed after two chunks went in
C9_Witness ==
    /\ script = "inject_pubmed_data"
    /\ Len(add_calls) = 3
    /\ ~add_calls[3].ok
    /\ Len(pubmed_abstracts.docs) = 2 * BatchSize
    /\ Len(documents) > 2 * BatchSize

----------------------------------------------------------------------------
(* C10 *)

\* C10: every add call on a collection carries at most 2000 documents, on
\* the primary path as on the secondary path
C10_EveryAddBounded ==
    \A k \in DOMAIN add_calls : Len(add_calls[k].chunk) <= BatchSize

----------------------------------------------------------------------------
(* C11 *)

\* the transformer has run on the table df
Transformed == script = "inject_data" /\ pc = "grna_inject"

\* C11: create_documents makes exactly one document per row of the table,
\* in the order of the rows, and the metadata of every document has exactly
\* the nine keys; the key of a missing cell is there, mapped to the empty
\* string, and the key of a present cell is mapped to its string
C11_OneDocumentPerRow ==
    Transformed =>
        /\ Len(documents) = Len(df)
        /\ \A k \in DOMAIN documents :
              /\ DOMAIN documents[k].metadata = MetadataKeys
              /\ documents[k].metadata["row_index"] = k - 1
              /\ \A c \in ColumnSet :
                    documents[k].metadata[MetadataKey[c]] =
                        (IF notna(df[k][c]) THEN Str(df[k][c]) ELSE EmptyStr)

\* a table of several rows, one of which misses cells, has been transformed
C11_Witness ==
    /\ Transformed
    /\ Len(df) > 1
    /\ Len(documents) = Len(df)
    /\ \E k \in DOMAIN df : \E c \in ColumnSet :
          /\ ~notna(df[k][c])
          /\ documents[k].metadata[MetadataKey[c]] = EmptyStr

----------------------------------------------------------------------------
(* C12 *)

\* the texts of a list of documents, in order
TextsOf(docs) == [k \in DOMAIN docs |-> docs[k].text]

\* an ingestion run has ended after it reached the add call
Ingested ==
    /\ script = "inject_data"
    /\ pc = "done"
    /\ Len(add_calls) = 1

\* the run ingested the snapshot whose documents the corpus held when the
\* run started: the corpus had the documents of the same rows in the same
\* order
Reingested == Ingested /\ TextsOf(start_docs) = TextsOf(documents)

\* C12: ingestion is idempotent: the documents made of a snapshot are those
\* the transformer makes of its rows, with the ids entry_<row index>, so a
\* second run on the same snapshot makes the documents the corpus holds;
\* and after a run on the snapshot the corpus already held, the corpus holds
\* the same documents as before, with no id stored twice
C12_IngestionIdempotent ==
    /\ Ingested =>
          /\ documents = grna_create_documents(df)
          /\ \A k \in DOMAIN documents : documents[k].id = <<"entry_", k - 1>>
    /\ Reingested =>
          /\ documents = start_docs
          /\ grna_addgene.docs = start_docs
          /\ ~HasDuplicateIds(grna_addgene.docs)

\* a snapshot of two rows has been ingested a second time
C12_Witness ==
    /\ Reingested
    /\ Len(df) = 2
    /\ start_docs = documents
    /\ grna_addgene.docs = documents

----------------------------------------------------------------------------
(* C13 *)

\* C13: re-ingestion is a full replace: after a run that ingested a
\* snapshot into a corpus that held the documents of an earlier snapshot,
\* the primary corpus holds exactly the documents of the later snapshot
C13_FullReplace ==
    (Ingested /\ exit = "ok" /\ start_docs /= << >>) =>
        grna_addgene.docs = documents

----------------------------------------------------------------------------
(* C14 *)

\* C14: a step that finds a named collection absent creates it with its
\* description metadata: the secondary collection comes into being with the
\* PubMed description and the primary collection with the gRNA description,
\* and a step that finds the collection present keeps its description
C14_CreatedWithDescription ==
    [][/\ pubmed_abstracts'.exists =>
             pubmed_abstracts'.description =
                 (IF pubmed_abstracts.exists THEN pubmed_abstracts.description
                  ELSE PubmedDescription)
       /\ grna_addgene'.exists =>
             grna_addgene'.description =
                 (IF grna_addgene.exists THEN grna_addgene.description
                  ELSE GrnaDescription)]_vars

----------------------------------------------------------------------------
(* C15 *)

\* results holds what the last search(text, k) returned
Searched == query.kind = "search"

\* C15: search(text, k) returns at most k results, in order of
\* non-decreasing distance, the i-th result pairing the i-th document text
\* with the i-th metadata and the i-th distance of the store's answer, each
\* the text and metadata of one document of the corpus; when the store call
\* fails the result is the empty list
C15_SearchRanked ==
    Searched =>
        /\ Len(results) <= query.n_results
        /\ \A i, j \in DOMAIN results :
              i < j => results[i].distance <= results[j].distance
        /\ IF raw.ok
           THEN /\ Len(results) = Len(raw.documents)
                /\ \A i \in DOMAIN results :
                      /\ results[i] = [document |-> raw.documents[i],
                                       metadata |-> raw.metadatas[i],
                                       distance |-> raw.distances[i]]
                      /\ \E k \in DOMAIN grna_addgene.docs :
                            /\ grna_addgene.docs[k].text = results[i].document
                            /\ grna_addgene.docs[k].metadata = results[i].metadata
           ELSE results = << >>

\* a search returned two results, the nearer one first
C15_Witness ==
    /\ Searched
    /\ raw.ok
    /\ Len(results) = 2
    /\ results[1].distance < results[2].distance

----------------------------------------------------------------------------
(* C16 *)

\* results holds what the last search_by_metadata(filter, k) returned
SearchedByMetadata == query.kind = "search_by_metadata"

\* the table of the two rows targeting AAVS1 and EGFP was ingested into an
\* empty corpus, and the store answered the query for the target EGFP
EgfpExample ==
    /\ SearchedByMetadata
    /\ df = <<BaseRow(1), BaseRow(2)>>
    /\ start_docs = << >>
    /\ exit = "ok"
    /\ query.metadata_filter = [key \in {"target"} |-> <<"EGFP">>]
    /\ raw.ok

\* C16: after ingestion and insertion, search_by_metadata(filter) returns
\* only documents of the corpus whose metadata equals the filter on every
\* key of the filter; for the table of the two rows targeting AAVS1 and
\* EGFP the documents are entry_0 and entry_1, and the filter target = EGFP
\* returns exactly entry_1
C16_FilterRoundTrip ==
    /\ SearchedByMetadata =>
          \A i \in DOMAIN results :
              /\ \A key \in DOMAIN query.metadata_filter :
                    results[i].metadata[key] = query.metadata_filter[key]
              /\ \E k \in DOMAIN grna_addgene.docs :
                    /\ grna_addgene.docs[k].text = results[i].document
                    /\ grna_addgene.docs[k].metadata = results[i].metadata
    /\ EgfpExample =>
          /\ [k \in DOMAIN documents |-> documents[k].id] =
                 << <<"entry_", 0>>, <<"entry_", 1>> >>
          /\ grna_addgene.docs = documents
          /\ results = << [document |-> documents[2].text,
                           metadata |-> documents[2].metadata] >>

\* the query for the target EGFP returned the one document of the second row
C16_Witness ==
    /\ EgfpExample
    /\ Len(results) = 1
    /\ results[1].metadata["target"] = <<"EGFP">>
    /\ results[1].metadata["row_index"] = 1

----------------------------------------------------------------------------
(* C17 *)

\* C17: an answer of the bibliographic service that is not a 2xx answer
\* makes no abstract record: no record of the run, and so none with an empty
\* abstract, was made from such an answer
C17_FailureMakesNoRecord == ~non2xx_used

====
